---- MODULE Spec2Model ----
(***************************************************************************)
(* A model of the ArchivesSpace reorder tool: the input normalizer         *)
(* (excel_processor.py), the consistency checker and move executor         *)
(* (aspace_client.py, validation_manager.py) and the run that drives them  *)
(* (reorder_tool.py).                                                      *)
(*                                                                         *)
(* Text is modelled as a sequence of tokens.  A column name is a sequence  *)
(* of one-character strings.  An API reference such as                     *)
(* "/repositories/2/archival_objects/123" is the sequence                  *)
(*   << "/", "repositories", "/", "2", "/", "archival_objects", "/",       *)
(*      "1", "2", "3" >>                                                    *)
(* in which the slash and every digit is a token of its own and the three  *)
(* words "repositories", "archival_objects" and "resources" are one token  *)
(* each.  The words hold neither a slash nor a digit, so a search for a    *)
(* slash followed by digits finds the same matches in the token sequence   *)
(* as in the character string.                                             *)
(***************************************************************************)
EXTENDS Integers, Sequences, FiniteSets, TLC

VARIABLES
    pc,                 \* position of the running component
    session_token,      \* ArchivesSpaceClient.session_token: "none" or "tok"
    table,              \* the data frame read from the input file
    norm,               \* result of process_excel_file
    records,            \* the MoveRecords main holds
    parent_type,        \* "archival_objects" or "resources"
    parent_id,          \* id of the target parent
    parent_result,      \* result of validate_parent_record
    resource_id,        \* derived resource id, 0 for None
    parent_store,       \* the repository: the record stored for the parent
    server,             \* the repository: archival object id -> record
    object_ids,         \* ids handed to client.validate_child_records
    max_samples,        \* sample size handed to client.validate_child_records
    validation_results, \* the dictionary client.validate_child_records builds
    child_log,          \* the locals of each finished iteration of its loop
    child_validation,   \* is_valid of validation_manager.validate_child_records
    mv,                 \* locals of the move loops (individual and bulk)
    api_log,            \* every API request sent, in order
    exit_code,          \* -1 while running, else the process exit status
    run                 \* main's answers from the operator and why it ended

vars == << pc, session_token, table, norm, records, parent_type, parent_id,
           parent_result, resource_id, parent_store, server, object_ids, max_samples,
           validation_results, child_log, child_validation, mv, api_log,
           exit_code, run >>

----------------------------------------------------------------------------
(* Generic helpers *)

Min(a, b) == IF a < b THEN a ELSE b

RECURSIVE SeqsUpTo(_, _)
\* all sequences over S of length at most n
SeqsUpTo(S, n) ==
    IF n = 0 THEN { << >> }
    ELSE LET shorter == SeqsUpTo(S, n - 1)
         IN  shorter \cup { Append(s, x) : s \in { t \in shorter : Len(t) = n - 1 }, x \in S }

\* Python's `needle in hay` on strings
Contains(hay, needle) ==
    \E i \in 1..(Len(hay) - Len(needle) + 1) :
        SubSeq(hay, i, i + Len(needle) - 1) = needle

DigitChar == << "0", "1", "2", "3", "4", "5", "6", "7", "8", "9" >>

RECURSIVE Str(_)
\* Python's str(n) of a natural number
Str(n) == IF n < 10 THEN << DigitChar[n + 1] >>
          ELSE Append(Str(n \div 10), DigitChar[(n % 10) + 1])

\* Python's s.split('/')[-1]: what follows the last slash
LastSegment(s) ==
    LET slashes == { i \in 1..Len(s) : s[i] = "/" }
    IN  IF slashes = {} THEN s
        ELSE LET last == CHOOSE i \in slashes : \A j \in slashes : j <= i
             IN  SubSeq(s, last + 1, Len(s))

----------------------------------------------------------------------------
(* Cells of the input table *)

\* A cell of the data frame:
\*   int      the number v                     frac     the number v + 1/2
\*   str_int  the text "v"                     str_frac the text "v.5"
\*   text     a text that is no number         nan      an empty cell
\*   str_inf  a text such as "inf" or "1e999"   inf      the float infinity
IntCell(v)     == [k |-> "int", v |-> v]
FracCell(v)    == [k |-> "frac", v |-> v]
StrIntCell(v)  == [k |-> "str_int", v |-> v]
StrFracCell(v) == [k |-> "str_frac", v |-> v]
TextCell       == [k |-> "text", v |-> 0]
NanCell        == [k |-> "nan", v |-> 0]
StrInfCell     == [k |-> "str_inf", v |-> 0]
InfCell        == [k |-> "inf", v |-> 0]

\* pd.to_numeric(cell, errors='coerce')
ToNumeric(c) ==
    CASE c.k = "int"      -> c
      [] c.k = "frac"     -> c
      [] c.k = "str_int"  -> IntCell(c.v)
      [] c.k = "str_frac" -> FracCell(c.v)
      [] c.k = "str_inf"  -> InfCell
      [] c.k = "inf"      -> InfCell
      [] OTHER            -> NanCell

\* pd.isnull(cell)
IsNull(c) == c.k = "nan"

\* Python's int(cell): ok is FALSE where int() raises; of the float infinity
\* it raises OverflowError, which is neither a ValueError nor a TypeError
PyInt(c) ==
    CASE c.k = "int"      -> [ok |-> TRUE, v |-> c.v, overflow |-> FALSE]
      [] c.k = "frac"     -> [ok |-> TRUE, v |-> c.v, overflow |-> FALSE]
      [] c.k = "str_int"  -> [ok |-> TRUE, v |-> c.v, overflow |-> FALSE]
      [] c.k = "inf"      -> [ok |-> FALSE, v |-> 0, overflow |-> TRUE]
      [] OTHER            -> [ok |-> FALSE, v |-> 0, overflow |-> FALSE]

----------------------------------------------------------------------------
(* Input normalizer: excel_processor.py *)

\* A data frame is [columns |-> sequence of column names,
\*                  rows |-> sequence of [index |-> label, cells |-> sequence of cells]].
Frame(columns, cellrows) ==
    [columns |-> columns,
     rows |-> [i \in 1..Len(cellrows) |-> [index |-> i - 1, cells |-> cellrows[i]]]]

\* the list of names without "ASpace ID"
id_column_variations_without_aspace_id ==
    << << "I", "d" >>,
       << "I", "D" >>,
       << "i", "d" >>,
       << "O", "b", "j", "e", "c", "t", " ", "I", "D" >>,
       << "O", "b", "j", "e", "c", "t", "I", "D" >>,
       << "A", "r", "c", "h", "i", "v", "a", "l", " ", "O", "b", "j", "e", "c", "t", " ", "I", "D" >>,
       << "A", "r", "c", "h", "i", "v", "a", "l", "O", "b", "j", "e", "c", "t", "I", "D" >>,
       << "R", "e", "c", "o", "r", "d", " ", "I", "D" >>,
       << "R", "e", "c", "o", "r", "d", "I", "D" >>,
       << "I", "d", "e", "n", "t", "i", "f", "i", "e", "r" >>,
       << "A", "S", "p", "a", "c", "e", "I", "D" >>,
       << "A", "s", "p", "a", "c", "e", " ", "I", "D" >>,
       << "A", "s", "p", "a", "c", "e", "I", "D" >> >>

id_column_variations ==
    << << "I", "d" >>,
       << "I", "D" >>,
       << "i", "d" >>,
       << "O", "b", "j", "e", "c", "t", " ", "I", "D" >>,
       << "O", "b", "j", "e", "c", "t", "I", "D" >>,
       << "A", "r", "c", "h", "i", "v", "a", "l", " ", "O", "b", "j", "e", "c", "t", " ", "I", "D" >>,
       << "A", "r", "c", "h", "i", "v", "a", "l", "O", "b", "j", "e", "c", "t", "I", "D" >>,
       << "R", "e", "c", "o", "r", "d", " ", "I", "D" >>,
       << "R", "e", "c", "o", "r", "d", "I", "D" >>,
       << "I", "d", "e", "n", "t", "i", "f", "i", "e", "r" >>,
       << "A", "S", "p", "a", "c", "e", " ", "I", "D" >>,
       << "A", "S", "p", "a", "c", "e", "I", "D" >>,
       << "A", "s", "p", "a", "c", "e", " ", "I", "D" >>,
       << "A", "s", "p", "a", "c", "e", "I", "D" >> >>

\* the tokens of the partial match
partial_tokens ==
    { << "i", "d" >>,
      << "i", "d", "e", "n", "t", "i", "f", "i", "e", "r" >>,
      << "o", "b", "j", "e", "c", "t" >> }

UpperAlpha == << "A", "B", "C", "D", "E", "F", "G", "H", "I", "J", "K", "L", "M",
                 "N", "O", "P", "Q", "R", "S", "T", "U", "V", "W", "X", "Y", "Z" >>
LowerAlpha == << "a", "b", "c", "d", "e", "f", "g", "h", "i", "j", "k", "l", "m",
                 "n", "o", "p", "q", "r", "s", "t", "u", "v", "w", "x", "y", "z" >>

\* A column label is the text of its header cell, a sequence of characters;
\* read_excel leaves the label of a numeric header cell a number, written here
\* as the digits behind the tag "<int>".
IsStr(name) == name = << >> \/ name[1] # "<int>"

\* Python's str.lower()
Lower(name) ==
    [i \in 1..Len(name) |->
        IF \E u \in 1..Len(UpperAlpha) : UpperAlpha[u] = name[i]
        THEN LowerAlpha[CHOOSE u \in 1..Len(UpperAlpha) : UpperAlpha[u] = name[i]]
        ELSE name[i]]

\* least element of a non-empty set of numbers
Least(S) == CHOOSE x \in S : \A y \in S : x <= y

\* The column find_id_column returns, as its number in df.columns; 0 for None,
\* -1 for the AttributeError of col.lower() on a label that is no str, which
\* the loop of the partial match raises when it comes to such a label before
\* it has found a match.
find_id_column(df) ==
    LET cols     == 1..Len(df.columns)
        exact    == { a \in 1..Len(id_column_variations) :
                        \E c \in cols : df.columns[c] = id_column_variations[a] }
        partial  == { c \in cols :
                        /\ IsStr(df.columns[c])
                        /\ \E t \in partial_tokens : Contains(Lower(df.columns[c]), t) }
        numeric  == { c \in cols :
                        \E i \in 1..Len(df.rows) : ~IsNull(ToNumeric(df.rows[i].cells[c])) }
        stopped  == partial \cup { c \in cols : ~IsStr(df.columns[c]) }
    IN  IF exact # {}
        THEN CHOOSE c \in cols : df.columns[c] = id_column_variations[Least(exact)]
        ELSE IF stopped # {}
        THEN IF IsStr(df.columns[Least(stopped)]) THEN Least(stopped) ELSE -1
        ELSE IF numeric # {} THEN Least(numeric)
        ELSE 0

\* df.dropna(how='all') keeps the rows that have some cell
HasValue(row) == \E c \in 1..Len(row.cells) : ~IsNull(row.cells[c])

\* df.reset_index(drop=True)
ResetIndex(rows) == [i \in 1..Len(rows) |-> [index |-> i - 1, cells |-> rows[i].cells]]

\* clean_archivesspace_dataframe without the removal of the leading rows
clean_keeping_header(df) ==
    [columns |-> df.columns, rows |-> SelectSeq(ResetIndex(df.rows), HasValue),
     raised |-> FALSE]

\* clean_archivesspace_dataframe removing the second row whatever it holds
clean_dropping_second_row(df) ==
    LET no_header == IF Len(df.rows) > 0 THEN Tail(df.rows) ELSE df.rows
        no_validation == IF Len(no_header) > 0 THEN Tail(no_header) ELSE no_header
    IN  [columns |-> df.columns,
         rows |-> SelectSeq(ResetIndex(no_validation), HasValue),
         raised |-> FALSE]

\* the cleaned frame; raised when find_id_column, called once a row is left
\* after the header row, raises
clean_archivesspace_dataframe(df) ==
    LET no_header == IF Len(df.rows) > 0 THEN Tail(df.rows) ELSE df.rows
        id_column == find_id_column(df)
        no_validation ==
            IF /\ Len(no_header) > 0
               /\ id_column > 0
               /\ ~PyInt(no_header[1].cells[id_column]).ok
            THEN Tail(no_header)
            ELSE no_header
    IN  [columns |-> df.columns,
         rows |-> SelectSeq(ResetIndex(no_validation), HasValue),
         raised |-> Len(no_header) > 0 /\ id_column = -1]

\* validate_dataframe: ok with the column found and the frame as the in-place
\* conversion of the ID column leaves it, or the ValueError raised
validate_dataframe(df) ==
    LET id_column == find_id_column(df)
        coerced   == [df EXCEPT !.rows =
                        [i \in 1..Len(df.rows) |->
                            [df.rows[i] EXCEPT !.cells[id_column] = ToNumeric(@)]]]
    IN  IF id_column = -1
        THEN [ok |-> FALSE, error |-> "AttributeError", id_column |-> 0, df |-> df]
        ELSE IF id_column = 0
        THEN [ok |-> FALSE, error |-> "NoIdColumnFound", id_column |-> 0, df |-> df]
        ELSE IF \A i \in 1..Len(df.rows) : IsNull(df.rows[i].cells[id_column])
        THEN [ok |-> FALSE, error |-> "NoValidData", id_column |-> id_column, df |-> df]
        ELSE IF \A i \in 1..Len(df.rows) : IsNull(coerced.rows[i].cells[id_column])
        THEN [ok |-> FALSE, error |-> "NoValidIDs", id_column |-> id_column, df |-> coerced]
        ELSE [ok |-> TRUE, error |-> "", id_column |-> id_column, df |-> coerced]

RECURSIVE reorder_loop_deduplicating(_, _, _, _, _)
\* the loop emitting no record for an identifier it has emitted before
reorder_loop_deduplicating(rows, id_column, i, recs, position_counter) ==
    IF i > Len(rows) THEN [raised |-> FALSE, records |-> recs]
    ELSE LET obj_id == PyInt(rows[i].cells[id_column])
         IN  IF obj_id.ok /\ \A n \in 1..Len(recs) : recs[n].id # obj_id.v
             THEN reorder_loop_deduplicating(rows, id_column, i + 1,
                         Append(recs, [id |-> obj_id.v,
                                       position |-> position_counter,
                                       row_number |-> position_counter,
                                       original_row |-> rows[i].index]),
                         position_counter + 1)
             ELSE IF obj_id.overflow
             THEN [raised |-> TRUE, records |-> recs]
             ELSE reorder_loop_deduplicating(rows, id_column, i + 1, recs,
                                             position_counter)

RECURSIVE reorder_loop(_, _, _, _, _)
\* the loop of prepare_reorder_data over df.iterrows(), from row i on: it
\* catches the ValueError and TypeError of int() and no other exception
reorder_loop(rows, id_column, i, recs, position_counter) ==
    IF i > Len(rows) THEN [raised |-> FALSE, records |-> recs]
    ELSE LET obj_id == PyInt(rows[i].cells[id_column])
         IN  IF obj_id.ok
             THEN reorder_loop(rows, id_column, i + 1,
                         Append(recs, [id |-> obj_id.v,
                                       position |-> position_counter,
                                       row_number |-> position_counter,
                                       original_row |-> rows[i].index]),
                         position_counter + 1)
             ELSE IF obj_id.overflow
             THEN [raised |-> TRUE, records |-> recs]
             ELSE reorder_loop(rows, id_column, i + 1, recs, position_counter)

\* the result of prepare_reorder_data: the records, or the error raised;
\* available_columns is the list the missing-column message shows
prepare_reorder_data(df) ==
    LET v == validate_dataframe(df)
        looped == reorder_loop(v.df.rows, v.id_column, 1, << >>, 1)
        Raised(error) == [ok |-> FALSE, error |-> error, records |-> << >>,
                          available_columns |-> IF error = "NoIdColumnFound"
                                                THEN df.columns ELSE << >>]
    IN  IF ~v.ok THEN Raised(v.error)
        ELSE IF looped.raised THEN Raised("OverflowError")
        ELSE IF looped.records = << >> THEN Raised("NoValidRecords")
        ELSE [ok |-> TRUE, error |-> "", records |-> looped.records,
              available_columns |-> << >>]

\* process_excel_file on the frame load_excel_file returned
process_excel_file(df) ==
    LET df_cleaned == clean_archivesspace_dataframe(df)
    IN  IF df_cleaned.raised
        THEN [ok |-> FALSE, error |-> "AttributeError", records |-> << >>,
              available_columns |-> << >>]
        ELSE prepare_reorder_data(df_cleaned)

----------------------------------------------------------------------------
(* Values of the variables a component does not use *)

NoFrame    == Frame(<< >>, << >>)
NoNorm     == [ok |-> FALSE, error |-> "not_run", records |-> << >>,
               available_columns |-> << >>]
NoParent   == [exists |-> FALSE, title |-> "", error |-> "not_run"]
NoServer   == << >>
NoRun      == [proceed |-> FALSE, confirmed |-> FALSE, choice |-> "", reason |-> ""]
NoParentRecord == [title |-> "absent", has_resource |-> FALSE, resource_ref |-> << >>]
NoResults  == [total_checked |-> 0, valid_records |-> 0, invalid_records |-> 0,
               errors |-> << >>, reparenting_detected |-> FALSE,
               current_parents |-> << >>]
NoMove     == [mode |-> "none", i |-> 0, j |-> 0, success_count |-> 0,
               error_count |-> 0, batch_success |-> 0, batch_errors |-> 0,
               results |-> << >>, batches |-> << >>, batch_delays |-> 0,
               request_delays |-> 0, slept |-> << >>,
               returned |-> FALSE, raised |-> FALSE]

----------------------------------------------------------------------------
(* The normalizer on its own: process_excel_file applied to a table *)

MaxRows  == 4   \* rows of a one-column table
MaxRows2 == 2   \* rows of a two-column table

ColId       == << "I", "d" >>
ColASpaceID == << "A", "S", "p", "a", "c", "e", " ", "I", "D" >>
ColObjectID == << "O", "b", "j", "e", "c", "t", " ", "I", "D" >>
ColTitle    == << "T", "i", "t", "l", "e" >>
ColWidth    == << "W", "i", "d", "t", "h" >>
ColNotes    == << "N", "o", "t", "e", "s" >>
ColRef      == << "R", "e", "f" >>
ColYear     == << "<int>", "2", "0", "2", "4" >>

IdCells    == { IntCell(101), IntCell(102), StrIntCell(103), StrFracCell(104),
                FracCell(105), TextCell, NanCell, StrInfCell }
SmallCells == { IntCell(101), TextCell, NanCell }

InputTables ==
    { Frame(cols, rows) :
        cols \in { << ColId >>, << ColASpaceID >>, << ColRef >> },
        rows \in SeqsUpTo({ << c >> : c \in IdCells }, MaxRows) }
    \cup
    { Frame(cols, rows) :
        cols \in { << ColTitle, ColId >>, << ColWidth, ColObjectID >>,
                   << ColRef, ColNotes >>, << ColTitle, ColNotes >>,
                   << ColWidth, ColASpaceID >>, << ColObjectID, ColASpaceID >>,
                   << ColRef, ColWidth >>, << ColYear, ColWidth >>,
                   << ColYear, ColId >> },
        rows \in SeqsUpTo({ << a, b >> : a \in SmallCells, b \in SmallCells }, MaxRows2) }

InitNorm ==
    /\ pc = "process_excel_file"
    /\ table \in InputTables
    /\ norm = NoNorm
    /\ session_token = "none"
    /\ records = << >>
    /\ parent_type = "none"
    /\ parent_id = 0
    /\ parent_result = NoParent
    /\ resource_id = 0
    /\ parent_store = NoParentRecord
    /\ server = NoServer
    /\ object_ids = << >>
    /\ max_samples = 0
    /\ validation_results = NoResults
    /\ child_log = << >>
    /\ child_validation = FALSE
    /\ mv = NoMove
    /\ api_log = << >>
    /\ exit_code = -1
    /\ run = NoRun

\* excel_processor.process_excel_file(file_path) returns or raises
ProcessExcelFile ==
    /\ pc = "process_excel_file"
    /\ norm' = process_excel_file(table)
    /\ pc' = "norm_done"
    /\ UNCHANGED << session_token, table, records, parent_type, parent_id,
                    parent_result, resource_id, parent_store, server, object_ids, max_samples,
                    validation_results, child_log, child_validation, mv, api_log,
                    exit_code, run >>

NextNorm == ProcessExcelFile

SpecNorm == InitNorm /\ [][NextNorm]_vars

----------------------------------------------------------------------------
(* Claims about the normalizer *)

\* "coercible to an integer": the numeric conversion of the cell is a number
\* that int() accepts
Coercible(c) == PyInt(ToNumeric(c)).ok

\* the rows of table t, by number, whose cell in column c is coercible
CoercibleRows(t, c) ==
    { i \in 1..Len(t.rows) : c > 0 /\ Coercible(t.rows[i].cells[c]) }

RECURSIVE Ascending(_)
\* the numbers of a finite set, in increasing order
Ascending(S) ==
    IF S = {} THEN << >>
    ELSE << Least(S) >> \o Ascending(S \ { Least(S) })

\* norm holds one record per row of rowset, in row order, positions 1..N
OnePerRow(t, c, rowset) ==
    LET order == Ascending(rowset)
    IN  /\ norm.ok
        /\ Len(norm.records) = Cardinality(rowset)
        /\ \A n \in 1..Len(norm.records) :
              /\ norm.records[n].id = PyInt(ToNumeric(t.rows[order[n]].cells[c])).v
              /\ norm.records[n].position = n

\* C1 as claimed: a table with exactly N rows whose identifier cell is
\* coercible to an integer gives exactly N MoveRecords, one per coercible row
\* in row order, with positions 1..N.
C1_AllCoercibleRows ==
    (/\ pc = "norm_done"
     /\ CoercibleRows(table, find_id_column(table)) # {})
        => OnePerRow(table, find_id_column(table), CoercibleRows(table, find_id_column(table)))

\* the rows structural cleanup leaves: never the first row, nor the second
\* when int() rejects its identifier cell, nor a row without any value
RowsAfterCleanup(t) ==
    LET c == find_id_column(t)
    IN  { i \in 2..Len(t.rows) :
            /\ HasValue(t.rows[i])
            /\ ~(i = 2 /\ c > 0 /\ ~PyInt(t.rows[2].cells[c]).ok) }

\* the identifier column discovery selects on the rows cleanup leaves
ColumnAfterCleanup(t) ==
    find_id_column([columns |-> t.columns,
                    rows |-> [n \in 1..Cardinality(RowsAfterCleanup(t)) |->
                                 t.rows[Ascending(RowsAfterCleanup(t))[n]]]])

\* the rows cleanup leaves whose identifier converts to the float infinity
InfiniteRows(t, c) ==
    { i \in RowsAfterCleanup(t) : c > 0 /\ ToNumeric(t.rows[i].cells[c]).k = "inf" }

\* C1 as amended: with N the number of rows that structural cleanup leaves
\* and whose identifier cell is coercible, the normalizer returns exactly N
\* MoveRecords, one per such row in row order with positions 1..N, when
\* N >= 1 and no row left has an infinite identifier; it raises, returning
\* no record, when N = 0 or a row left has an infinite identifier.
C1_CoercibleRowsAfterCleanup ==
    pc = "norm_done" =>
        LET c    == ColumnAfterCleanup(table)
            rows == RowsAfterCleanup(table) \cap CoercibleRows(table, c)
        IN  IF rows # {} /\ InfiniteRows(table, c) = {}
            THEN OnePerRow(table, c, rows)
            ELSE ~norm.ok /\ norm.records = << >>

\* a table whose first row is coercible and is dropped, with a skipped row
\* between two emitted records
C1_Witness ==
    /\ pc = "norm_done"
    /\ norm.ok
    /\ Len(norm.records) = 2
    /\ Len(table.rows) = 4
    /\ Coercible(table.rows[1].cells[find_id_column(table)])
    /\ ~Coercible(table.rows[3].cells[find_id_column(table)])

\* the leading rows of t that structural cleanup is to drop: the first, and
\* the second when the table has an identifier column and int() does not
\* accept the second row's identifier cell
LeadingRowsDropped(t) ==
    LET c == find_id_column(t)
    IN  IF Len(t.rows) = 0 THEN 0
        ELSE IF Len(t.rows) >= 2 /\ c > 0
                /\ t.rows[2].cells[c].k \in { "text", "nan", "str_frac", "str_inf" }
        THEN 2
        ELSE 1

\* C11: structural cleanup drops the first row of the raw table whatever it
\* holds, drops the second row too exactly when its identifier cell is not
\* coercible to an integer (int() of the cell raises), and drops no further
\* leading row: every later row that holds a value is kept, in order,
\* numbered from 0 behind the dropped rows. This is of the frame cleanup
\* returns.
C11_DropsOneOrTwoLeadingRows ==
    (pc = "norm_done" /\ ~clean_archivesspace_dataframe(table).raised) =>
        LET skip    == LeadingRowsDropped(table)
            cleaned == clean_archivesspace_dataframe(table).rows
            kept    == Ascending({ p \in (skip + 1)..Len(table.rows) : HasValue(table.rows[p]) })
        IN  /\ Len(cleaned) = Len(kept)
            /\ \A n \in 1..Len(cleaned) :
                  /\ cleaned[n].cells = table.rows[kept[n]].cells
                  /\ cleaned[n].index = kept[n] - 1 - skip

\* rows [header, non-numeric validation row, 101, 102] give the records
\* (101, position 1), (102, position 2)
C11_Witness ==
    /\ pc = "norm_done"
    /\ table = Frame(<< ColId >>, << << TextCell >>, << TextCell >>,
                                     << IntCell(101) >>, << IntCell(102) >> >>)
    /\ LeadingRowsDropped(table) = 2
    /\ norm.ok
    /\ Len(norm.records) = 2
    /\ norm.records[1].id = 101 /\ norm.records[1].position = 1
    /\ norm.records[2].id = 102 /\ norm.records[2].position = 2

\* C12: the records the normalizer returns carry the positions 1, 2, ..., K
\* in emission order, which is row order; a row whose identifier cannot be
\* coerced is skipped without raising and takes no position, so K is the
\* number of cleaned rows with a coercible identifier.
C12_DensePositions ==
    pc = "norm_done" =>
        LET cleaned == clean_archivesspace_dataframe(table)
            c       == find_id_column(cleaned)
            good    == { i \in 1..Len(cleaned.rows) :
                            c # 0 /\ Coercible(cleaned.rows[i].cells[c]) }
        IN  /\ Len(norm.records) = Cardinality(good)
            /\ \A n \in 1..Len(norm.records) :
                  /\ norm.records[n].position = n
                  /\ norm.records[n].row_number = n
                  /\ norm.records[n].original_row = cleaned.rows[Ascending(good)[n]].index

\* C21: the normalizer does not deduplicate: an identifier that occurs k
\* times among the surviving rows is the id of k records, at strictly
\* increasing positions, and the number of records is the number of
\* surviving rows, not the number of distinct ids.
C21_NoDeduplication ==
    (pc = "norm_done" /\ norm.ok) =>
        LET c         == ColumnAfterCleanup(table)
            surviving == RowsAfterCleanup(table) \cap CoercibleRows(table, c)
            IdOf(i)   == PyInt(ToNumeric(table.rows[i].cells[c])).v
        IN  /\ Len(norm.records) = Cardinality(surviving)
            /\ \A i \in surviving :
                  Cardinality({ n \in 1..Len(norm.records) : norm.records[n].id = IdOf(i) })
                     = Cardinality({ j \in surviving : IdOf(j) = IdOf(i) })
            /\ \A n \in 1..Len(norm.records), m \in 1..Len(norm.records) :
                  n < m => norm.records[n].position < norm.records[m].position

\* an identifier occurs twice, with another identifier in between
C21_Witness ==
    /\ pc = "norm_done"
    /\ norm.ok
    /\ Len(norm.records) = 3
    /\ norm.records[1].id = norm.records[3].id
    /\ norm.records[2].id # norm.records[1].id
    /\ norm.records[3].position = 3

\* the three ways a column can be taken for the identifier column
IsAlias(name) == \E a \in 1..Len(id_column_variations) : id_column_variations[a] = name

MatchesBySubstring(name) ==
    IsStr(name) /\ \E t \in partial_tokens : Contains(Lower(name), t)

HasNumericContent(f, c) ==
    \E i \in 1..Len(f.rows) : ToNumeric(f.rows[i].cells[c]).k \in { "int", "frac", "inf" }

\* the column discovery on frame f respects the precedence of the strategies
StrictPrecedence(f) ==
    LET c    == find_id_column(f)
        cols == 1..Len(f.columns)
    IN  IF \E k \in cols : IsAlias(f.columns[k])
        THEN c \in cols /\ IsAlias(f.columns[c])
        ELSE IF \E k \in cols : MatchesBySubstring(f.columns[k])
        THEN c \in cols /\ MatchesBySubstring(f.columns[c])
        ELSE IF \E k \in cols : HasNumericContent(f, k)
        THEN c \in cols /\ HasNumericContent(f, c)
        ELSE c = 0

\* C24: column discovery takes a column named exactly as a known alias
\* before any column matching by substring only, and a column matching by
\* substring before any column matching by numeric content only; when no
\* strategy matches, and only then, the normalizer fails with the error of
\* the missing identifier column, which lists the available columns, and
\* emits no record.
C24_StrategyPrecedence ==
    pc = "norm_done" =>
        LET cleaned == clean_archivesspace_dataframe(table)
            none    == \A k \in 1..Len(cleaned.columns) :
                          /\ ~IsAlias(cleaned.columns[k])
                          /\ ~MatchesBySubstring(cleaned.columns[k])
                          /\ ~HasNumericContent(cleaned, k)
        IN  /\ StrictPrecedence(table)
            /\ StrictPrecedence(cleaned)
            /\ none <=> norm.error = "NoIdColumnFound"
            /\ none => /\ ~norm.ok
                       /\ norm.records = << >>
                       /\ norm.available_columns = table.columns

\* table t with its column "ASpace ID" named "Id" instead
NamedId(t) ==
    [t EXCEPT !.columns = [c \in 1..Len(t.columns) |->
                              IF t.columns[c] = ColASpaceID THEN ColId ELSE t.columns[c]]]

HasColumn(t, name) == \E c \in 1..Len(t.columns) : t.columns[c] = name

\* some column of t carries a name that id_column_variations lists before
\* "ASpace ID"
HasEarlierAlias(t) ==
    \E c \in 1..Len(t.columns), a \in 1..Len(id_column_variations) :
        /\ t.columns[c] = id_column_variations[a]
        /\ \E b \in (a + 1)..Len(id_column_variations) : id_column_variations[b] = ColASpaceID

\* C19 as claimed: a table whose identifier column is named "ASpace ID" and
\* the table that differs from it only in naming that column "Id" give the
\* same MoveRecord list.
C19_SameRecordsUnderEitherName ==
    (pc = "norm_done" /\ HasColumn(table, ColASpaceID) /\ ~HasColumn(table, ColId))
        => process_excel_file(NamedId(table)).records = norm.records

\* C19 as amended: the two tables give the same MoveRecord list, or fail
\* alike, when no other column carries a name that the list of known names
\* has before "ASpace ID".
C19_SameRecordsUnlessEarlierAlias ==
    (pc = "norm_done" /\ HasColumn(table, ColASpaceID) /\ ~HasEarlierAlias(table))
        => process_excel_file(NamedId(table)) = norm

\* a table with a column "Width", which the partial match would take, and
\* the column "ASpace ID"
C19_Witness ==
    /\ pc = "norm_done"
    /\ table.columns = << ColWidth, ColASpaceID >>
    /\ norm.ok
    /\ Len(norm.records) >= 1
    /\ table.rows[2].cells[1].k # "int"

----------------------------------------------------------------------------
(* Record accessor and consistency checker: aspace_client.py,              *)
(* validation_manager.py                                                   *)

\* AS_REPOSITORY_ID, by default '2'
repository_id == 2

\* f"/repositories/{self.repository_id}/{record_type}/{record_id}"
Ref(record_type, record_id) ==
    << "/", "repositories", "/" >> \o Str(repository_id)
        \o << "/", record_type, "/" >> \o record_id

\* a GET request as it goes out, with the answer it got
GetRequest(record_type, record_id, answer) ==
    [op |-> "get", type |-> record_type, id |-> record_id, child |-> 0,
     position |-> 0, answer |-> answer]

\* get_record sending the request a second time when the transport failed
get_record_retrying(token, record_type, record_id, answer, stored) ==
    IF token = "none"
    THEN [ok |-> FALSE, error |-> "not_authenticated", record |-> << >>, sent |-> << >>]
    ELSE IF answer = "ok"
    THEN [ok |-> TRUE, error |-> "", record |-> stored,
          sent |-> << GetRequest(record_type, record_id, answer) >>]
    ELSE IF answer = "transport"
    THEN [ok |-> TRUE, error |-> "", record |-> stored,
          sent |-> << GetRequest(record_type, record_id, answer),
                      GetRequest(record_type, record_id, "ok") >>]
    ELSE [ok |-> FALSE, error |-> answer, record |-> << >>,
          sent |-> << GetRequest(record_type, record_id, answer) >>]

\* What one call of get_record does: without a session it raises before any
\* request; else it sends one request and returns the record or raises what
\* the transport, the status check or the body parser raised.
\* answer is "ok", "transport", "status" or "body".
get_record(token, record_type, record_id, answer, stored) ==
    IF token = "none"
    THEN [ok |-> FALSE, error |-> "not_authenticated", record |-> << >>, sent |-> << >>]
    ELSE IF answer = "ok"
    THEN [ok |-> TRUE, error |-> "", record |-> stored,
          sent |-> << GetRequest(record_type, record_id, answer) >>]
    ELSE [ok |-> FALSE, error |-> answer, record |-> << >>,
          sent |-> << GetRequest(record_type, record_id, answer) >>]

Answers == { "ok", "transport", "status", "body" }

\* the places in the sample at which the fetch of the child may fail
FetchFailSpots == { 1, 2 }

\* the answers the fetch of the k-th sampled child can get
FetchAnswers(k) == IF k \in FetchFailSpots THEN Answers ELSE { "ok" }

\* the identifier slice of validate_child_records
sample_all(ids, n) == ids

sample_ids(ids, n) == SubSeq(ids, 1, Min(Len(ids), n))

\* f"/{parent_id}" in ancestor_ref
RefHasParent(ancestor_ref, pid) == Contains(ancestor_ref, << "/" >> \o Str(pid))

\* 'archival_objects' in ancestor_ref
IsArchivalObjectRef(ancestor_ref) ==
    \E i \in 1..Len(ancestor_ref) : ancestor_ref[i] = "archival_objects"

RECURSIVE ancestor_loop(_, _, _, _)
\* the loop over record['ancestors'] from ancestor i on; current_parent is
\* << >> while it is None
ancestor_loop(ancestors, pid, i, current_parent) ==
    IF i > Len(ancestors)
    THEN [parent_found |-> FALSE, current_parent |-> current_parent]
    ELSE IF RefHasParent(ancestors[i], pid)
    THEN [parent_found |-> TRUE, current_parent |-> current_parent]
    ELSE ancestor_loop(ancestors, pid, i + 1,
                       IF IsArchivalObjectRef(ancestors[i])
                       THEN LastSegment(ancestors[i])
                       ELSE current_parent)

\* f"{resource_id}": resource_id 0 stands for None
ResourceIdStr(rid) == IF rid = 0 THEN << "None" >> ELSE Str(rid)

\* the locals of one iteration, the resource test passing when the resource
\* id is unknown
child_locals_ignoring_unknown_resource(obj_id, got, pid, rid) ==
    LET has_fields == got.ok /\ got.record.has_ancestors /\ got.record.has_resource
        anc        == ancestor_loop(got.record.ancestors, pid, 1, << >>)
        matches    == \/ rid = 0
                      \/ got.record.resource_ref = Ref("resources", ResourceIdStr(rid))
    IN  [obj_id           |-> obj_id,
         fetched          |-> got.ok,
         record           |-> got.record,
         has_fields       |-> has_fields,
         parent_found     |-> has_fields /\ anc.parent_found,
         current_parent   |-> IF has_fields THEN anc.current_parent ELSE << >>,
         resource_matches |-> has_fields /\ matches,
         reparenting      |-> /\ has_fields
                              /\ ~anc.parent_found
                              /\ anc.current_parent # << >>
                              /\ anc.current_parent # Str(pid),
         valid            |-> has_fields /\ anc.parent_found /\ matches]

\* the locals of one iteration of the loop of validate_child_records
\* on the fetch result got
child_locals(obj_id, got, pid, rid) ==
    LET has_fields == got.ok /\ got.record.has_ancestors /\ got.record.has_resource
        anc        == ancestor_loop(got.record.ancestors, pid, 1, << >>)
        matches    == got.record.resource_ref = Ref("resources", ResourceIdStr(rid))
    IN  [obj_id           |-> obj_id,
         fetched          |-> got.ok,
         record           |-> got.record,
         has_fields       |-> has_fields,
         parent_found     |-> has_fields /\ anc.parent_found,
         current_parent   |-> IF has_fields THEN anc.current_parent ELSE << >>,
         resource_matches |-> has_fields /\ matches,
         reparenting      |-> /\ has_fields
                              /\ ~anc.parent_found
                              /\ anc.current_parent # << >>
                              /\ anc.current_parent # Str(pid),
         valid            |-> has_fields /\ anc.parent_found /\ matches]

\* the error messages one iteration appends
child_errors(l) ==
    IF ~l.fetched THEN << [id |-> l.obj_id, kind |-> "exception"] >>
    ELSE IF ~l.has_fields THEN << [id |-> l.obj_id, kind |-> "missing_fields"] >>
    ELSE IF l.valid THEN << >>
    ELSE (IF l.parent_found THEN << >>
          ELSE << [id |-> l.obj_id, kind |-> "parent_not_found"] >>)
         \o (IF l.resource_matches THEN << >>
             ELSE << [id |-> l.obj_id, kind |-> "resource_mismatch"] >>)

\* the update counting an item of a reparenting as neither valid nor invalid
child_update_not_counting_reparented(vr, l) ==
    [total_checked        |-> vr.total_checked + 1,
     valid_records        |-> vr.valid_records + (IF l.valid THEN 1 ELSE 0),
     invalid_records      |-> vr.invalid_records
                                 + (IF l.valid \/ l.reparenting THEN 0 ELSE 1),
     errors               |-> vr.errors \o child_errors(l),
     reparenting_detected |-> vr.reparenting_detected \/ l.reparenting,
     current_parents      |-> IF l.reparenting
                              THEN (l.obj_id :> l.current_parent) @@ vr.current_parents
                              ELSE vr.current_parents]

\* the update counting an invalid item once per error message
child_update_counting_errors(vr, l) ==
    [total_checked        |-> vr.total_checked + 1,
     valid_records        |-> vr.valid_records + (IF l.valid THEN 1 ELSE 0),
     invalid_records      |-> vr.invalid_records + Len(child_errors(l)),
     errors               |-> vr.errors \o child_errors(l),
     reparenting_detected |-> vr.reparenting_detected \/ l.reparenting,
     current_parents      |-> IF l.reparenting
                              THEN (l.obj_id :> l.current_parent) @@ vr.current_parents
                              ELSE vr.current_parents]

\* validation_results after one iteration with locals l
child_update(vr, l) ==
    [total_checked        |-> vr.total_checked + 1,
     valid_records        |-> vr.valid_records + (IF l.valid THEN 1 ELSE 0),
     invalid_records      |-> vr.invalid_records + (IF l.valid THEN 0 ELSE 1),
     errors               |-> vr.errors \o child_errors(l),
     reparenting_detected |-> vr.reparenting_detected \/ l.reparenting,
     current_parents      |-> IF l.reparenting
                              THEN (l.obj_id :> l.current_parent) @@ vr.current_parents
                              ELSE vr.current_parents]

\* is_valid of validation_manager.validate_child_records
is_valid_any(vr) == vr.valid_records > 0

is_valid(vr) == vr.valid_records > 0 /\ vr.invalid_records = 0

\* validation_manager.validate_child_records is entered: the ids are taken
\* from the records and client.validate_child_records starts with its
\* empty dictionary
ValidateChildRecordsCall ==
    /\ pc = "validate_children"
    /\ object_ids' = [n \in 1..Len(records) |-> records[n].id]
    /\ validation_results' = NoResults
    /\ child_log' = << >>
    /\ pc' = "child_loop"
    /\ UNCHANGED << session_token, table, norm, records, parent_type, parent_id,
                    parent_result, resource_id, parent_store, server, max_samples,
                    child_validation, mv, api_log, exit_code, run >>

\* one iteration of `for obj_id in sample_ids`
ValidateChildStep ==
    /\ pc = "child_loop"
    /\ Len(child_log) < Len(sample_ids(object_ids, max_samples))
    /\ LET obj_id == sample_ids(object_ids, max_samples)[Len(child_log) + 1]
       IN  \E answer \in FetchAnswers(Len(child_log) + 1) :
             LET got == get_record(session_token, "archival_objects", Str(obj_id),
                                   answer, server[obj_id])
                 l   == child_locals(obj_id, got, parent_id, resource_id)
             IN  /\ api_log' = api_log \o got.sent
                 /\ child_log' = Append(child_log, l)
                 /\ validation_results' = child_update(validation_results, l)
    /\ UNCHANGED << pc, session_token, table, norm, records, parent_type, parent_id,
                    parent_result, resource_id, parent_store, server, object_ids, max_samples,
                    child_validation, mv, exit_code, run >>

\* the loop is over: client.validate_child_records returns its dictionary and
\* validation_manager.validate_child_records returns is_valid with it
ValidateChildRecordsReturn ==
    /\ pc = "child_loop"
    /\ Len(child_log) = Len(sample_ids(object_ids, max_samples))
    /\ child_validation' = is_valid(validation_results)
    /\ pc' = "child_done"
    /\ UNCHANGED << session_token, table, norm, records, parent_type, parent_id,
                    parent_result, resource_id, parent_store, server, object_ids, max_samples,
                    validation_results, child_log, mv, api_log, exit_code, run >>

----------------------------------------------------------------------------
(* The child validation on its own: validation_manager.validate_child_records *)

MaxIds     == 3   \* length of the record list
MaxSamples == 2   \* largest sample size tried

AO(n)  == Ref("archival_objects", Str(n))
Res(n) == Ref("resources", Str(n))

\* a record of the repository as get_record returns it; resource_ref is << >>
\* for a resource without 'ref'
ChildRecord(has_ancestors, ancestors, has_resource, resource_ref) ==
    [has_ancestors |-> has_ancestors, ancestors |-> ancestors,
     has_resource |-> has_resource, resource_ref |-> resource_ref]

AncestorLists ==
    { << >>,
      << Res(5) >>,
      << Res(12) >>,
      << AO(12), Res(5) >>,
      << AO(123), Res(5) >>,
      << AO(7), Res(5) >>,
      << AO(7), AO(12), Res(5) >>,
      << AO(7), AO(8), Res(5) >> }

ChildRecords ==
    { ChildRecord(TRUE, a, TRUE, r) : a \in AncestorLists, r \in { Res(5), Res(6), << >> } }
    \cup { ChildRecord(FALSE, << >>, TRUE, Res(5)),
           ChildRecord(TRUE, << AO(7), Res(5) >>, FALSE, << >>) }

FewChildRecords ==
    { ChildRecord(TRUE, << AO(12), Res(5) >>, TRUE, Res(5)),
      ChildRecord(TRUE, << AO(7), Res(5) >>, TRUE, Res(5)),
      ChildRecord(TRUE, << AO(123), Res(5) >>, TRUE, Res(5)) }

\* the MoveRecords of a list of ids
RecordsOf(ids) ==
    [n \in 1..Len(ids) |-> [id |-> ids[n], position |-> n, row_number |-> n,
                            original_row |-> n - 1]]

InitChild ==
    /\ pc = "validate_children"
    /\ session_token \in { "tok", "none" }
    /\ \E ids \in SeqsUpTo({ 101, 102 }, MaxIds) : records = RecordsOf(ids)
    /\ parent_type = "archival_objects"
    /\ parent_id \in { 12, 2 }
    /\ resource_id \in { 5, 0 }
    /\ \E r1 \in ChildRecords, r2 \in FewChildRecords : server = (101 :> r1) @@ (102 :> r2)
    /\ max_samples \in 0..MaxSamples
    /\ object_ids = << >>
    /\ validation_results = NoResults
    /\ child_log = << >>
    /\ child_validation = FALSE
    /\ table = NoFrame
    /\ norm = NoNorm
    /\ parent_result = NoParent
    /\ parent_store = NoParentRecord
    /\ mv = NoMove
    /\ api_log = << >>
    /\ exit_code = -1
    /\ run = NoRun

NextChild ==
    \/ ValidateChildRecordsCall
    \/ ValidateChildStep
    \/ ValidateChildRecordsReturn

SpecChild == InitChild /\ [][NextChild]_vars

----------------------------------------------------------------------------
(* Claims about the child validation *)

\* C3: the run is marked eligible exactly when, among the sampled records,
\* at least one validated successfully and none is invalid.
C3_EligibleIffSomeValidNoneInvalid ==
    pc = "child_done" =>
        (child_validation <=>
            /\ \E n \in 1..Len(child_log) : child_log[n].valid
            /\ \A n \in 1..Len(child_log) : child_log[n].valid)

\* one invalid sampled record blocks a run that has a valid one
C3_Witness ==
    /\ pc = "child_done"
    /\ ~child_validation
    /\ \E n \in 1..Len(child_log) : child_log[n].valid
    /\ \E n \in 1..Len(child_log) : ~child_log[n].valid

\* the id at the end of a reference
RefId(ref) == LastSegment(ref)

\* some ancestor reference of the record is the target parent's
AncestorsHoldParent(l) ==
    \E a \in 1..Len(l.record.ancestors) : RefId(l.record.ancestors[a]) = Str(parent_id)

\* the archival-object ids among the ancestors other than the target parent's
OtherArchivalObjects(l) ==
    { RefId(l.record.ancestors[a]) : a \in { b \in 1..Len(l.record.ancestors) :
        /\ IsArchivalObjectRef(l.record.ancestors[b])
        /\ RefId(l.record.ancestors[b]) # Str(parent_id) } }

\* C7: a sampled child whose ancestors hold an archival object other than the
\* target parent and do not hold the target parent sets reparenting_detected
\* and is mapped to that current parent; a child whose ancestors hold the
\* target parent is never in current_parents.
C7_ReparentingDetected ==
    \A n \in 1..Len(child_log) :
        LET l == child_log[n]
        IN  l.has_fields =>
              /\ (OtherArchivalObjects(l) # {} /\ ~AncestorsHoldParent(l)) =>
                    /\ validation_results.reparenting_detected
                    /\ l.obj_id \in DOMAIN validation_results.current_parents
                    /\ validation_results.current_parents[l.obj_id]
                          \in OtherArchivalObjects(l)
              /\ AncestorsHoldParent(l) =>
                    l.obj_id \notin DOMAIN validation_results.current_parents

\* C8: parent_found is true exactly when some ancestor reference has the
\* target parent id as its id segment; a longer id that starts with the
\* parent id's digits, or the repository number, does not count.
C8_ParentFoundIffIdSegment ==
    \A n \in 1..Len(child_log) :
        child_log[n].has_fields =>
            (child_log[n].parent_found <=> AncestorsHoldParent(child_log[n]))

\* C10: the loop inspects the first min(N, sampleSize) identifiers in list
\* order, sends one fetch for each of them when there is a session, and
\* fetches nothing beyond that prefix.
C10_OnlyTheSamplePrefix ==
    LET n == Min(Len(object_ids), max_samples)
    IN  /\ Len(child_log) <= n
        /\ \A k \in 1..Len(child_log) : child_log[k].obj_id = object_ids[k]
        /\ Len(api_log) = IF session_token = "none" THEN 0 ELSE Len(child_log)
        /\ \A k \in 1..Len(api_log) :
              /\ api_log[k].op = "get"
              /\ api_log[k].type = "archival_objects"
              /\ api_log[k].id = Str(object_ids[k])
        /\ pc = "child_done" => Len(child_log) = n

\* a list longer than the sample, cut to the sample
C10_Witness ==
    /\ pc = "child_done"
    /\ max_samples >= 1
    /\ Len(object_ids) > max_samples
    /\ Len(api_log) = max_samples

\* the id of the first archival-object reference of an ancestors chain,
\* << >> when the chain has none
NearestArchivalObject(ancestors) ==
    LET at == { a \in 1..Len(ancestors) : IsArchivalObjectRef(ancestors[a]) }
    IN  IF at = {} THEN << >> ELSE RefId(ancestors[Least(at)])

\* C22: for every sampled child whose reparenting is recorded, the current
\* parent recorded is the nearest archival-object ancestor: the first
\* archival-object reference of the ancestors chain, which runs from the
\* record up to its resource.
C22_CurrentParentIsNearest ==
    \A n \in 1..Len(child_log) :
        LET l == child_log[n]
        IN  l.reparenting =>
              /\ l.current_parent = NearestArchivalObject(l.record.ancestors)
              /\ validation_results.current_parents[l.obj_id]
                    = NearestArchivalObject(l.record.ancestors)

\* C23: a sampled child is counted valid exactly when its fetch succeeded,
\* its record has the ancestors and the resource field, the target parent is
\* among its ancestors and its resource reference is
\* /repositories/{repo}/resources/{resourceId}; every other child, one whose
\* fetch failed included, is counted invalid with at least one error
\* message, and the loop goes on to the remaining sampled children.
C23_ValidIffFetchedFieldsParentResource ==
    /\ \A n \in 1..Len(child_log) :
          LET l == child_log[n]
          IN  /\ l.valid <=>
                    /\ l.fetched
                    /\ l.record.has_ancestors
                    /\ l.record.has_resource
                    /\ AncestorsHoldParent(l)
                    /\ l.record.resource_ref = Ref("resources", ResourceIdStr(resource_id))
              /\ ~l.valid =>
                    \E e \in 1..Len(validation_results.errors) :
                        validation_results.errors[e].id = l.obj_id
    /\ validation_results.valid_records
          = Cardinality({ n \in 1..Len(child_log) : child_log[n].valid })
    /\ validation_results.invalid_records
          = Cardinality({ n \in 1..Len(child_log) : ~child_log[n].valid })
    /\ pc = "child_done" => Len(child_log) = Min(Len(object_ids), max_samples)

\* C20: a call of get_record sends at most one request and never a second
\* one for the same call; a request that fails (transport error, non-2xx
\* status, unparsable body) makes the call raise, so that the caller holds
\* no record for it; a call without a session raises before any request.
C20_OneRequestNoRetry ==
    /\ [][Len(api_log') <= Len(api_log) + 1]_vars
    /\ [](\A k \in 1..Len(child_log) :
            IF session_token = "none"
            THEN /\ api_log = << >>
                 /\ ~child_log[k].fetched
                 /\ child_log[k].record = << >>
            ELSE /\ Len(api_log) = Len(child_log)
                 /\ api_log[k].op = "get"
                 /\ api_log[k].id = Str(child_log[k].obj_id)
                 /\ child_log[k].fetched <=> api_log[k].answer = "ok"
                 /\ child_log[k].fetched => child_log[k].record = server[child_log[k].obj_id]
                 /\ ~child_log[k].fetched =>
                       /\ child_log[k].record = << >>
                       /\ ~child_log[k].valid)

\* a fetch that failed, followed by a fetch that succeeded
C20_Witness ==
    /\ session_token = "tok"
    /\ Len(child_log) >= 2
    /\ ~child_log[1].fetched
    /\ child_log[2].fetched
    /\ Len(api_log) = 2

\* the items of the sample processed so far that were counted valid, invalid
ValidItems   == { n \in 1..Len(child_log) : child_log[n].valid }
InvalidItems == { n \in 1..Len(child_log) : ~child_log[n].valid }

\* C27: after every item of the sample, and in the summary returned,
\* valid_records + invalid_records = total_checked, each item processed being
\* counted in exactly one of the two counters; on return total_checked is
\* min(N, sampleSize); every key of current_parents is the id of a sampled
\* item that was counted invalid.
C27_CountersPartitionTheSample ==
    pc \in { "child_loop", "child_done" } =>
        /\ validation_results.valid_records + validation_results.invalid_records
              = validation_results.total_checked
        /\ validation_results.total_checked = Len(child_log)
        /\ validation_results.valid_records = Cardinality(ValidItems)
        /\ validation_results.invalid_records = Cardinality(InvalidItems)
        /\ \A n \in 1..Len(child_log) : child_log[n].obj_id = object_ids[n]
        /\ pc = "child_done" =>
              validation_results.total_checked = Min(Len(records), max_samples)
        /\ \A id \in DOMAIN validation_results.current_parents :
              \E n \in InvalidItems : child_log[n].obj_id = id

\* a sample of two of three records, one counted valid and one a reparenting
C27_Witness ==
    /\ pc = "child_done"
    /\ Len(records) = 3
    /\ max_samples = 2
    /\ validation_results.valid_records = 1
    /\ validation_results.invalid_records = 1
    /\ DOMAIN validation_results.current_parents # {}

----------------------------------------------------------------------------
(* Parent validation and resource-id derivation *)

\* a parent record as get_record returns it: title is "absent", "str",
\* "empty_str", "list" or "empty_list"; resource_ref is << >> for a resource
\* without 'ref'
ParentRecord(title, has_resource, resource_ref) ==
    [title |-> title, has_resource |-> has_resource, resource_ref |-> resource_ref]

\* the title get_record_title takes from a record
title_of(record) ==
    CASE record.title = "str"  -> "Title"
      [] record.title = "list" -> "First title"
      [] OTHER                 -> "No title found"

\* get_record_title: a fetch of its own, every exception turned into a text
get_record_title(token, record_type, record_id, answer, stored) ==
    LET got == get_record(token, record_type, Str(record_id), answer, stored)
    IN  [title |-> IF got.ok THEN title_of(got.record) ELSE "Error retrieving title",
         sent  |-> got.sent]

\* client.validate_parent_record, with the answers its two fetches get
validate_parent_record(token, record_type, record_id, answer1, answer2, stored) ==
    LET got   == get_record(token, record_type, Str(record_id), answer1, stored)
        named == get_record_title(token, record_type, record_id, answer2, stored)
    IN  IF got.ok
        THEN [result |-> [exists |-> TRUE, title |-> named.title, error |-> ""],
              sent   |-> got.sent \o named.sent]
        ELSE [result |-> [exists |-> FALSE, title |-> "", error |-> got.error],
              sent   |-> got.sent]

\* the digit a token stands for, -1 for a token that is no digit
DigitValue(ch) ==
    IF \E d \in 1..10 : DigitChar[d] = ch
    THEN (CHOOSE d \in 1..10 : DigitChar[d] = ch) - 1
    ELSE -1

RECURSIVE DecimalValue(_)
DecimalValue(seg) ==
    IF seg = << >> THEN 0
    ELSE 10 * DecimalValue(SubSeq(seg, 1, Len(seg) - 1)) + DigitValue(seg[Len(seg)])

\* Python's int(text): ok is FALSE where int() raises ValueError
PyIntStr(seg) ==
    IF seg # << >> /\ \A i \in 1..Len(seg) : DigitValue(seg[i]) >= 0
    THEN [ok |-> TRUE, v |-> DecimalValue(seg)]
    ELSE [ok |-> FALSE, v |-> 0]

\* extract_resource_id_from_parent reading resource.ref whatever the type is
extract_resource_id_by_fetch(token, record_type, record_id, answer, stored) ==
    LET got == get_record(token, record_type, Str(record_id), answer, stored)
        resource_ref == IF got.record.has_resource THEN got.record.resource_ref
                        ELSE << >>
        parsed == PyIntStr(LastSegment(resource_ref))
    IN  [resource_id |-> IF got.ok /\ resource_ref # << >> /\ parsed.ok
                         THEN parsed.v ELSE 0,
         sent |-> got.sent]

\* extract_resource_id_from_parent; resource_id 0 stands for None
extract_resource_id_from_parent(token, record_type, record_id, answer, stored) ==
    IF record_type = "resources"
    THEN [resource_id |-> record_id, sent |-> << >>]
    ELSE LET got == get_record(token, record_type, Str(record_id), answer, stored)
             resource_ref == IF got.record.has_resource THEN got.record.resource_ref
                             ELSE << >>
             parsed == PyIntStr(LastSegment(resource_ref))
         IN  [resource_id |-> IF got.ok /\ resource_ref # << >> /\ parsed.ok
                              THEN parsed.v ELSE 0,
              sent |-> got.sent]

\* validation_manager.validate_parent_record
ValidateParentRecord ==
    /\ pc = "validate_parent"
    /\ \E answer1 \in Answers, answer2 \in Answers :
          LET r == validate_parent_record(session_token, parent_type, parent_id,
                                          answer1, answer2, parent_store)
          IN  /\ parent_result' = r.result
              /\ api_log' = api_log \o r.sent
    /\ pc' = "parent_done"
    /\ UNCHANGED << session_token, table, norm, records, parent_type, parent_id,
                    resource_id, parent_store, server, object_ids, max_samples,
                    validation_results, child_log, child_validation, mv, exit_code, run >>

\* validation_manager.extract_resource_id_from_parent
ExtractResourceId ==
    /\ pc = "extract_resource_id"
    /\ \E answer \in Answers :
          LET r == extract_resource_id_from_parent(session_token, parent_type, parent_id,
                                                   answer, parent_store)
          IN  /\ resource_id' = r.resource_id
              /\ api_log' = api_log \o r.sent
    /\ pc' = "validate_children"
    /\ UNCHANGED << session_token, table, norm, records, parent_type, parent_id,
                    parent_result, parent_store, server, object_ids, max_samples,
                    validation_results, child_log, child_validation, mv, exit_code, run >>

ParentRecords ==
    { ParentRecord(t, TRUE, r) :
        t \in { "absent", "str", "empty_str", "list", "empty_list" },
        r \in { Res(5), << >>, Ref("resources", << "abc" >>), Ref("resources", << >>) } }
    \cup { ParentRecord(t, FALSE, << >>) : t \in { "absent", "str" } }

InitParent ==
    /\ pc \in { "validate_parent", "extract_resource_id" }
    /\ session_token \in { "tok", "none" }
    /\ parent_type \in { "archival_objects", "resources" }
    /\ parent_id \in { 12, 5 }
    /\ parent_store \in ParentRecords
    /\ parent_result = NoParent
    /\ resource_id = 0
    /\ records = << >>
    /\ server = NoServer
    /\ max_samples = 0
    /\ object_ids = << >>
    /\ validation_results = NoResults
    /\ child_log = << >>
    /\ child_validation = FALSE
    /\ table = NoFrame
    /\ norm = NoNorm
    /\ mv = NoMove
    /\ api_log = << >>
    /\ exit_code = -1
    /\ run = NoRun

NextParent ==
    \/ ValidateParentRecord
    \/ ExtractResourceId

SpecParent == InitParent /\ [][NextParent]_vars

\* C9: whenever a retrieval of the parent fails during validateParent (or
\* there is no session) the result has exists = false with an error message,
\* and exists = true is returned only when every fetch of the parent made
\* during validation succeeded.
C9_ExistsOnlyIfEveryFetchSucceeded ==
    pc = "parent_done" =>
        LET failed == \/ session_token = "none"
                      \/ \E k \in 1..Len(api_log) : api_log[k].answer # "ok"
        IN  /\ failed => (~parent_result.exists /\ parent_result.error # "")
            /\ parent_result.exists => ~failed

----------------------------------------------------------------------------
(* Move executor: move_object and move_multiple_objects *)

\* batch_size of move_multiple_objects
batch_size == 50

\* max_samples as main passes it to validate_child_records
main_max_samples == 10

\* the accept_children request for one child, with the answer it got
MoveRequest(record_type, record_id, object_id, position, answer) ==
    [op |-> "move", type |-> record_type, id |-> Str(record_id), child |-> object_id,
     position |-> position, answer |-> answer]

\* move_object without the check of the session
move_object_unchecked(token, record_type, record_id, object_id, position, answer) ==
    [ok |-> answer = "ok", error |-> IF answer = "ok" THEN "" ELSE answer,
     sent |-> << MoveRequest(record_type, record_id, object_id, position, answer) >>]

\* What one call of move_object does: without a session it raises before any
\* request; else it sends one request and returns the response or raises.
move_object(token, record_type, record_id, object_id, position, answer) ==
    IF token = "none"
    THEN [ok |-> FALSE, error |-> "not_authenticated", sent |-> << >>]
    ELSE [ok |-> answer = "ok", error |-> IF answer = "ok" THEN "" ELSE answer,
          sent |-> << MoveRequest(record_type, record_id, object_id, position, answer) >>]

\* records[i:i + batch_size] of the records of the validated sample only
batch_of_the_sample(recs, i) ==
    SubSeq(recs, i + 1, Min(Min(i + batch_size, Len(recs)), main_max_samples))

\* records[i:i + batch_size] cut one short
batch_short(recs, i) == SubSeq(recs, i + 1, Min(i + batch_size - 1, Len(recs)))

\* records[i:i + batch_size]
batch(recs, i) == SubSeq(recs, i + 1, Min(i + batch_size, Len(recs)))

\* the entry appended to results
MoveOutcome(record, moved) ==
    IF moved.ok THEN [object_id |-> record.id, status |-> "Success", detail |-> "response"]
    ELSE [object_id |-> record.id, status |-> "Failed", detail |-> moved.error]

\* the places in the record list at which a move request may fail: the first
\* two records, and the last record of the first batch and the one after it
FailSpots == { 1, 2, batch_size, batch_size + 1 }

\* the answers the move request for the k-th record can get
MoveAnswers(k) == IF k \in FailSpots THEN Answers ELSE { "ok" }

\* the delay between batches made after every batch
delay_after_every_batch(i, total_records) == TRUE

\* `if i + batch_size < total_records and delay_between_batches > 0`
delay_after_batch(i, total_records) == i + batch_size < total_records

\* move_multiple_objects is entered: the session check and the initial locals
BulkCall ==
    /\ pc = "bulk_move"
    /\ IF session_token = "none"
       THEN /\ mv' = [NoMove EXCEPT !.mode = "bulk", !.raised = TRUE]
            /\ pc' = "bulk_done"
       ELSE /\ mv' = [NoMove EXCEPT !.mode = "bulk"]
            /\ pc' = "bulk_loop"
    /\ UNCHANGED << session_token, table, norm, records, parent_type, parent_id,
                    parent_result, resource_id, parent_store, server, object_ids,
                    max_samples, validation_results, child_log, child_validation,
                    api_log, exit_code, run >>

\* `for i in range(0, total_records, batch_size)` takes the next batch
BulkNextBatch ==
    /\ pc = "bulk_loop"
    /\ mv.i < Len(records)
    /\ mv' = [mv EXCEPT !.j = 0, !.batch_success = 0, !.batch_errors = 0]
    /\ pc' = "bulk_batch"
    /\ UNCHANGED << session_token, table, norm, records, parent_type, parent_id,
                    parent_result, resource_id, parent_store, server, object_ids,
                    max_samples, validation_results, child_log, child_validation,
                    api_log, exit_code, run >>

\* one iteration of `for j, record in enumerate(batch)`
BulkMoveItem ==
    /\ pc = "bulk_batch"
    /\ mv.j < Len(batch(records, mv.i))
    /\ LET record == batch(records, mv.i)[mv.j + 1]
       IN  \E answer \in MoveAnswers(mv.i + mv.j + 1) :
             LET moved == move_object(session_token, parent_type, parent_id,
                                      record.id, record.position, answer)
             IN  /\ api_log' = api_log \o moved.sent
                 /\ mv' = IF moved.ok
                          THEN [mv EXCEPT !.j = @ + 1,
                                          !.results = Append(@, MoveOutcome(record, moved)),
                                          !.success_count = @ + 1,
                                          !.batch_success = @ + 1,
                                          !.request_delays = @ + 1,
                                          !.slept = Append(@, TRUE)]
                          ELSE [mv EXCEPT !.j = @ + 1,
                                          !.results = Append(@, MoveOutcome(record, moved)),
                                          !.error_count = @ + 1,
                                          !.batch_errors = @ + 1,
                                          !.slept = Append(@, FALSE)]
    /\ UNCHANGED << pc, session_token, table, norm, records, parent_type, parent_id,
                    parent_result, resource_id, parent_store, server, object_ids,
                    max_samples, validation_results, child_log, child_validation,
                    exit_code, run >>

\* the batch is through: its report, and the delay before the next batch
BulkBatchEnd ==
    /\ pc = "bulk_batch"
    /\ mv.j = Len(batch(records, mv.i))
    /\ mv' = [mv EXCEPT !.batches = Append(@, [batch_num |-> (mv.i \div batch_size) + 1,
                                                size |-> Len(batch(records, mv.i)),
                                                batch_success |-> mv.batch_success,
                                                batch_errors |-> mv.batch_errors,
                                                delayed |-> delay_after_batch(mv.i, Len(records))]),
                        !.batch_delays = IF delay_after_batch(mv.i, Len(records))
                                         THEN @ + 1 ELSE @,
                        !.i = @ + batch_size]
    /\ pc' = "bulk_loop"
    /\ UNCHANGED << session_token, table, norm, records, parent_type, parent_id,
                    parent_result, resource_id, parent_store, server, object_ids,
                    max_samples, validation_results, child_log, child_validation,
                    api_log, exit_code, run >>

\* the range is exhausted: move_multiple_objects returns its result
BulkReturn ==
    /\ pc = "bulk_loop"
    /\ mv.i >= Len(records)
    /\ mv' = [mv EXCEPT !.returned = TRUE]
    /\ pc' = "bulk_done"
    /\ UNCHANGED << session_token, table, norm, records, parent_type, parent_id,
                    parent_result, resource_id, parent_store, server, object_ids,
                    max_samples, validation_results, child_log, child_validation,
                    api_log, exit_code, run >>

----------------------------------------------------------------------------
(* The bulk move on its own *)

MaxExtra == 1   \* records beyond two full batches

BulkSizes == { 0, 1, 2, batch_size - 1, batch_size, batch_size + 1,
               2 * batch_size + MaxExtra }

InitBulk ==
    /\ pc = "bulk_move"
    /\ session_token \in { "tok", "none" }
    /\ \E n \in BulkSizes : records = RecordsOf([k \in 1..n |-> 1000 + k])
    /\ parent_type \in { "archival_objects", "resources" }
    /\ parent_id = 12
    /\ parent_store = NoParentRecord
    /\ parent_result = NoParent
    /\ resource_id = 0
    /\ server = NoServer
    /\ max_samples = 0
    /\ object_ids = << >>
    /\ validation_results = NoResults
    /\ child_log = << >>
    /\ child_validation = FALSE
    /\ table = NoFrame
    /\ norm = NoNorm
    /\ mv = NoMove
    /\ api_log = << >>
    /\ exit_code = -1
    /\ run = NoRun

NextBulk ==
    \/ BulkCall
    \/ BulkNextBatch
    \/ BulkMoveItem
    \/ BulkBatchEnd
    \/ BulkReturn

SpecBulk == InitBulk /\ [][NextBulk]_vars

RECURSIVE SumBatches(_)
\* the per-batch success and error counts, summed
SumBatches(bs) ==
    IF bs = << >> THEN 0
    ELSE bs[1].batch_success + bs[1].batch_errors + SumBatches(Tail(bs))

\* ceil(n / b)
CeilDiv(n, b) == Least({ k \in 0..n : k * b >= n })

\* C4: a bulk move over N records processes ceil(N/B) batches, the per-batch
\* success and error counts sum to N = success_count + error_count, and every
\* record is attempted once, in order, whatever failed before it.
C4_BulkAttemptsEveryRecord ==
    (pc = "bulk_done" /\ mv.returned) =>
        /\ Len(mv.batches) = CeilDiv(Len(records), batch_size)
        /\ SumBatches(mv.batches) = Len(records)
        /\ mv.success_count + mv.error_count = Len(records)
        /\ Len(mv.results) = Len(records)
        /\ Len(api_log) = Len(records)
        /\ \A k \in 1..Len(api_log) :
              /\ api_log[k].op = "move"
              /\ api_log[k].child = records[k].id
              /\ api_log[k].position = records[k].position
              /\ mv.results[k].object_id = records[k].id
              /\ (mv.results[k].status = "Success") <=> (api_log[k].answer = "ok")

\* three batches, with failures in the first and the second batch, each
\* followed by a success
C4_Witness ==
    /\ pc = "bulk_done"
    /\ mv.returned
    /\ Len(mv.batches) = 3
    /\ mv.batches[1].batch_errors = 1
    /\ mv.batches[2].batch_errors = 1
    /\ api_log[1].answer # "ok"
    /\ api_log[2].answer = "ok"
    /\ api_log[batch_size + 1].answer # "ok"
    /\ mv.success_count = Len(records) - 2

\* C16: in a bulk move, between any two consecutive move calls of one batch
\* the inter-request delay elapses, whether the earlier call succeeded or
\* failed.
C16_DelayBetweenCallsOfABatch ==
    mv.mode = "bulk" =>
        \A k \in 1..(Len(mv.slept) - 1) :
            k % batch_size # 0 => mv.slept[k]

\* C17: in a bulk move the inter-batch delay follows every batch but the
\* last and never the last, so that a bulk move of ceil(N/B) batches makes
\* ceil(N/B) - 1 inter-batch delays, and none when N <= B.
C17_DelayBetweenBatchesOnly ==
    mv.mode = "bulk" =>
        /\ \A b \in 1..Len(mv.batches) :
              mv.batches[b].delayed <=> b < CeilDiv(Len(records), batch_size)
        /\ mv.batch_delays = Cardinality({ b \in 1..Len(mv.batches) : mv.batches[b].delayed })
        /\ (pc = "bulk_done" /\ mv.returned) =>
              /\ Len(records) <= batch_size => mv.batch_delays = 0
              /\ Len(records) > batch_size =>
                    mv.batch_delays = CeilDiv(Len(records), batch_size) - 1

\* three batches, two delays
C17_Witness ==
    /\ pc = "bulk_done"
    /\ mv.returned
    /\ Len(mv.batches) = 3
    /\ mv.batch_delays = 2
    /\ ~mv.batches[3].delayed

----------------------------------------------------------------------------
(* The run: main of reorder_tool.py *)

\* the login request, with the answer it got
LoginRequest(answer) ==
    [op |-> "login", type |-> "users", id |-> << >>, child |-> 0, position |-> 0,
     answer |-> answer]

\* authenticate: one login request; "no_session" is a response without a
\* session token
authenticate(answer) ==
    [ok |-> answer = "ok", token |-> IF answer = "ok" THEN "tok" ELSE "none",
     sent |-> << LoginRequest(answer) >>]

\* ui_helpers.preview_excel_file: False when the preview raises, which it does
\* on first_row['Title'][:30] when the frame has the columns Id and Title and
\* the Title of its first row is no text, and when the preview of the
\* processor reports the error find_id_column raised
preview_excel_file(df) ==
    LET id_at    == { c \in 1..Len(df.columns) : df.columns[c] = ColId }
        title_at == { c \in 1..Len(df.columns) : df.columns[c] = ColTitle }
    IN  /\ find_id_column(df) # -1
        /\ ~(/\ Len(df.rows) > 0
              /\ id_at # {}
              /\ title_at # {}
              /\ df.rows[1].cells[Least(title_at)].k \notin { "text", "str_int", "str_frac" })

\* main goes on after validate_excel_file_processing
processing_unchecked(n) == TRUE

processing_succeeded(n) == n.ok /\ n.records # << >>

\* display_validation_confirmation asks the operator
may_confirm_always(parent_validation, child_ok) == TRUE

may_confirm(parent_validation, child_ok) == parent_validation /\ child_ok

\* the counters of the individual loop after one move_object
individual_update_success_only(m, record, moved) ==
    [m EXCEPT !.j = @ + 1,
              !.results = Append(@, MoveOutcome(record, moved)),
              !.success_count = IF moved.ok THEN @ + 1 ELSE @]

\* results holds what display_individual_move_progress printed
individual_update(m, record, moved) ==
    [m EXCEPT !.j = @ + 1,
              !.results = Append(@, MoveOutcome(record, moved)),
              !.success_count = IF moved.ok THEN @ + 1 ELSE @,
              !.error_count = IF moved.ok THEN @ ELSE @ + 1]

\* an except clause for the exceptions of the requests library only, which
\* the ValueError of an unparsable body or of a missing session is not
move_request_exception_caught(moved) ==
    moved.error \notin { "body", "not_authenticated" }

\* `except Exception as e` of the individual loop catches whatever move_object
\* raises
move_exception_caught(moved) == TRUE

\* sys.exit(code)
Exit(code, reason) ==
    /\ pc' = "exit"
    /\ exit_code' = code
    /\ run' = [run EXCEPT !.reason = reason]

\* ArchivesSpaceClient(): _validate_config raises when a variable is missing
ClientInit ==
    /\ pc = "start"
    /\ \E config_ok \in BOOLEAN :
          IF config_ok
          THEN pc' = "authenticate" /\ UNCHANGED << exit_code, run >>
          ELSE Exit(1, "configuration")
    /\ UNCHANGED << session_token, table, norm, records, parent_type, parent_id,
                    parent_result, resource_id, parent_store, server, object_ids,
                    max_samples, validation_results, child_log, child_validation,
                    mv, api_log >>

\* client.authenticate() and main's check of it
Authenticate ==
    /\ pc = "authenticate"
    /\ \E answer \in Answers \cup { "no_session" } :
          LET a == authenticate(answer)
          IN  /\ api_log' = api_log \o a.sent
              /\ session_token' = a.token
              /\ IF a.ok
                 THEN pc' = "get_file" /\ UNCHANGED << exit_code, run >>
                 ELSE Exit(1, "authentication")
    /\ UNCHANGED << table, norm, records, parent_type, parent_id, parent_result,
                    resource_id, parent_store, server, object_ids, max_samples,
                    validation_results, child_log, child_validation, mv >>

\* excel_processor.get_sample_file_path()
GetSampleFilePath ==
    /\ pc = "get_file"
    /\ \E exists \in BOOLEAN :
          IF exists
          THEN pc' = "preview" /\ UNCHANGED << exit_code, run >>
          ELSE Exit(1, "file_not_found")
    /\ UNCHANGED << session_token, table, norm, records, parent_type, parent_id,
                    parent_result, resource_id, parent_store, server, object_ids,
                    max_samples, validation_results, child_log, child_validation,
                    mv, api_log >>

\* preview_excel_file(excel_processor, excel_file_path)
PreviewExcelFile ==
    /\ pc = "preview"
    /\ \E readable \in BOOLEAN :
          IF readable /\ preview_excel_file(table)
          THEN pc' = "ask_proceed" /\ UNCHANGED << exit_code, run >>
          ELSE Exit(1, "preview")
    /\ UNCHANGED << session_token, table, norm, records, parent_type, parent_id,
                    parent_result, resource_id, parent_store, server, object_ids,
                    max_samples, validation_results, child_log, child_validation,
                    mv, api_log >>

\* "Do you want to proceed with processing this file?"
AskProceed ==
    /\ pc = "ask_proceed"
    /\ \E yes \in BOOLEAN :
          IF yes
          THEN /\ pc' = "process_file"
               /\ run' = [run EXCEPT !.proceed = TRUE]
               /\ UNCHANGED exit_code
          ELSE Exit(0, "cancelled")
    /\ UNCHANGED << session_token, table, norm, records, parent_type, parent_id,
                    parent_result, resource_id, parent_store, server, object_ids,
                    max_samples, validation_results, child_log, child_validation,
                    mv, api_log >>

\* validate_excel_file_processing and main's check of it
ProcessFile ==
    /\ pc = "process_file"
    /\ norm' = process_excel_file(table)
    /\ IF processing_succeeded(norm')
       THEN /\ records' = norm'.records
            /\ pc' = "get_record_info"
            /\ UNCHANGED << exit_code, run >>
       ELSE /\ records' = << >>
            /\ Exit(1, "input")
    /\ UNCHANGED << session_token, table, parent_type, parent_id, parent_result,
                    resource_id, parent_store, server, object_ids, max_samples,
                    validation_results, child_log, child_validation, mv, api_log >>

\* client.get_record_info()
GetRecordInfo ==
    /\ pc = "get_record_info"
    /\ parent_type' \in { "archival_objects", "resources" }
    /\ parent_id' \in { 12, 5 }
    /\ pc' = "validate_parent"
    /\ UNCHANGED << session_token, table, norm, records, parent_result,
                    resource_id, parent_store, server, object_ids, max_samples,
                    validation_results, child_log, child_validation, mv, api_log,
                    exit_code, run >>

\* main's check of the parent validation
CheckParent ==
    /\ pc = "parent_done"
    /\ IF parent_result.exists
       THEN pc' = "extract_resource_id" /\ UNCHANGED << exit_code, run >>
       ELSE Exit(1, "parent_validation")
    /\ UNCHANGED << session_token, table, norm, records, parent_type, parent_id,
                    parent_result, resource_id, parent_store, server, object_ids,
                    max_samples, validation_results, child_log, child_validation,
                    mv, api_log >>

\* display_validation_confirmation, and display_cancellation when it is False
ConfirmValidation ==
    /\ pc = "child_done"
    /\ IF may_confirm(parent_result.exists, child_validation)
       THEN \E yes \in BOOLEAN :
               IF yes
               THEN /\ pc' = "choose_method"
                    /\ run' = [run EXCEPT !.confirmed = TRUE]
                    /\ UNCHANGED exit_code
               ELSE Exit(0, "cancelled")
       ELSE Exit(0, "validation_failed")
    /\ UNCHANGED << session_token, table, norm, records, parent_type, parent_id,
                    parent_result, resource_id, parent_store, server, object_ids,
                    max_samples, validation_results, child_log, child_validation,
                    mv, api_log >>

\* display_reorder_method_choice() and the branch main takes
ChooseMethod ==
    /\ pc = "choose_method"
    /\ \E choice \in { "1", "2" } :
          /\ run' = [run EXCEPT !.choice = choice]
          /\ IF choice = "1"
             THEN /\ mv' = [NoMove EXCEPT !.mode = "individual"]
                  /\ pc' = "individual_loop"
             ELSE /\ mv' = mv
                  /\ pc' = "bulk_move"
    /\ UNCHANGED << session_token, table, norm, records, parent_type, parent_id,
                    parent_result, resource_id, parent_store, server, object_ids,
                    max_samples, validation_results, child_log, child_validation,
                    api_log, exit_code >>

\* one iteration of `for record in records` of the individual moves; an
\* exception the loop did not catch would reach main's `except Exception`
IndividualMoveItem ==
    /\ pc = "individual_loop"
    /\ mv.j < Len(records)
    /\ LET record == records[mv.j + 1]
       IN  \E answer \in MoveAnswers(mv.j + 1) :
             LET moved == move_object(session_token, parent_type, parent_id,
                                      record.id, record.position, answer)
             IN  /\ api_log' = api_log \o moved.sent
                 /\ IF moved.ok \/ move_exception_caught(moved)
                    THEN /\ mv' = individual_update(mv, record, moved)
                         /\ UNCHANGED << pc, exit_code, run >>
                    ELSE /\ mv' = mv
                         /\ Exit(1, "unexpected")
    /\ UNCHANGED << session_token, table, norm, records, parent_type, parent_id,
                    parent_result, resource_id, parent_store, server, object_ids,
                    max_samples, validation_results, child_log, child_validation >>

\* the individual loop is over: the counts are printed
IndividualDone ==
    /\ pc = "individual_loop"
    /\ mv.j = Len(records)
    /\ mv' = [mv EXCEPT !.returned = TRUE]
    /\ pc' = "individual_done"
    /\ UNCHANGED << session_token, table, norm, records, parent_type, parent_id,
                    parent_result, resource_id, parent_store, server, object_ids,
                    max_samples, validation_results, child_log, child_validation,
                    api_log, exit_code, run >>

\* display_operation_completion(), and main returns
OperationCompletion ==
    /\ pc \in { "individual_done", "bulk_done" }
    /\ Exit(0, "completed")
    /\ UNCHANGED << session_token, table, norm, records, parent_type, parent_id,
                    parent_result, resource_id, parent_store, server, object_ids,
                    max_samples, validation_results, child_log, child_validation,
                    mv, api_log >>

HeaderRow == << TextCell >>

RunTables ==
    { Frame(<< ColId >>, << HeaderRow >>),
      Frame(<< ColId >>, << HeaderRow, << TextCell >>, << NanCell >> >>),
      Frame(<< ColId >>, << HeaderRow, << TextCell >>, << TextCell >> >>),
      Frame(<< ColTitle, ColNotes >>, << << TextCell, TextCell >>, << TextCell, TextCell >> >>),
      Frame(<< ColId, ColTitle >>, << << TextCell, NanCell >>, << IntCell(101), TextCell >> >>),
      Frame(<< ColYear, ColTitle >>, << << TextCell, TextCell >>, << IntCell(101), TextCell >> >>),
      Frame(<< ColId >>, << HeaderRow, << IntCell(101) >> >>),
      Frame(<< ColId >>, << HeaderRow, << TextCell >>, << IntCell(101) >>, << IntCell(102) >> >>),
      Frame(<< ColId >>, << HeaderRow, << IntCell(102) >>, << NanCell >>,
                            << StrIntCell(101) >>, << IntCell(102) >> >>),
      Frame(<< ColId >>, << HeaderRow >> \o [n \in 1..main_max_samples |-> << IntCell(101) >>]
                            \o << << IntCell(102) >> >>) }

RunParentRecords ==
    { ParentRecord("str", TRUE, Res(5)),
      ParentRecord("str", FALSE, << >>),
      ParentRecord("absent", TRUE, Ref("resources", << "abc" >>)) }

Init ==
    /\ pc = "start"
    /\ session_token = "none"
    /\ table \in RunTables
    /\ norm = NoNorm
    /\ records = << >>
    /\ parent_type = "none"
    /\ parent_id = 0
    /\ parent_result = NoParent
    /\ resource_id = 0
    /\ parent_store \in RunParentRecords
    /\ \E r1 \in FewChildRecords, r2 \in FewChildRecords : server = (101 :> r1) @@ (102 :> r2)
    /\ object_ids = << >>
    /\ max_samples = main_max_samples
    /\ validation_results = NoResults
    /\ child_log = << >>
    /\ child_validation = FALSE
    /\ mv = NoMove
    /\ api_log = << >>
    /\ exit_code = -1
    /\ run = NoRun

Next ==
    \/ ClientInit
    \/ Authenticate
    \/ GetSampleFilePath
    \/ PreviewExcelFile
    \/ AskProceed
    \/ ProcessFile
    \/ GetRecordInfo
    \/ ValidateParentRecord
    \/ CheckParent
    \/ ExtractResourceId
    \/ ValidateChildRecordsCall
    \/ ValidateChildStep
    \/ ValidateChildRecordsReturn
    \/ ConfirmValidation
    \/ ChooseMethod
    \/ IndividualMoveItem
    \/ IndividualDone
    \/ BulkCall
    \/ BulkNextBatch
    \/ BulkMoveItem
    \/ BulkBatchEnd
    \/ BulkReturn
    \/ OperationCompletion

Spec == Init /\ [][Next]_vars

----------------------------------------------------------------------------
(* Claims about the run *)

\* the move requests of the run, in the order they were sent
MoveCalls == SelectSeq(api_log, LAMBDA r : r.op = "move")

LoginSucceeded == \E k \in 1..Len(api_log) :
                     api_log[k].op = "login" /\ api_log[k].answer = "ok"

\* C2: a run sends a move request only after authentication succeeded, the
\* normalizer produced at least one record, the parent validation returned
\* exists = true, the child validation was eligible (valid_records > 0 and
\* invalid_records = 0) and the operator confirmed; a run that lacks one of
\* these has sent no move request.
C2_MovesOnlyAfterEveryGate ==
    MoveCalls # << >> =>
        /\ LoginSucceeded
        /\ session_token = "tok"
        /\ norm.ok
        /\ Len(records) >= 1
        /\ parent_result.exists
        /\ validation_results.valid_records > 0
        /\ validation_results.invalid_records = 0
        /\ child_validation
        /\ run.confirmed

C2_Witness ==
    /\ pc = "exit"
    /\ MoveCalls # << >>
    /\ run.confirmed

\* C5: in individual mode the loop sends one move request for every record of
\* the full list, once each and in increasing position order, whether or not
\* earlier moves failed; when the loop ends success_count + error_count is the
\* number of records.
C5_IndividualAttemptsEveryRecord ==
    run.choice = "1" =>
        /\ Len(MoveCalls) = mv.j
        /\ \A k \in 1..Len(MoveCalls) :
              /\ MoveCalls[k].child = records[k].id
              /\ MoveCalls[k].position = records[k].position
              /\ MoveCalls[k].position = k
        /\ mv.success_count + mv.error_count = mv.j
        /\ pc \in { "individual_done", "exit" } => mv.j = Len(records)

C5_Witness ==
    /\ run.choice = "1"
    /\ pc = "individual_done"
    /\ Len(records) >= 3
    /\ MoveCalls[1].answer # "ok"
    /\ MoveCalls[2].answer = "ok"
    /\ mv.error_count >= 1

\* the normalizer's errors of a table that yields no record
ZeroRecordErrors == { "NoValidData", "NoValidIDs", "NoValidRecords" }

\* C6 as stated: a run whose normalization yields zero valid records fails
\* and has issued no API call of any kind, the login included.
C6_ZeroApiCalls ==
    norm.error \in ZeroRecordErrors => exit_code = 1 /\ api_log = << >>

\* C6: a run whose normalization yields zero valid records ends at once with
\* exit status 1, and the only API call of the whole run is the login that
\* main makes before it reads the file: no fetch and no move.
C6_OnlyTheLogin ==
    norm.error \in ZeroRecordErrors =>
        /\ pc = "exit"
        /\ exit_code = 1
        /\ records = << >>
        /\ api_log = << LoginRequest("ok") >>

C6_Witness ==
    /\ pc = "exit"
    /\ norm.error \in ZeroRecordErrors
    /\ Len(table.rows) >= 3

\* the steps of the move phase, which wait for no operator
MovePhaseStep ==
    \/ IndividualMoveItem
    \/ IndividualDone
    \/ BulkCall
    \/ BulkNextBatch
    \/ BulkMoveItem
    \/ BulkBatchEnd
    \/ BulkReturn
    \/ OperationCompletion

\* the run in which the move phase, once entered, keeps running: every
\* request is answered or fails
SpecLive == Spec /\ WF_vars(MovePhaseStep)

\* C13: once the move phase of a run has started, failed moves are only
\* counted: whichever moves fail, all of them included, the run attempts
\* every record and reaches the completion report; it does not end in
\* another way.
C13_MoveFailuresNeverAbort ==
    /\ []((run.choice # "" /\ pc = "exit") =>
             /\ run.reason = "completed"
             /\ exit_code = 0
             /\ Len(MoveCalls) = Len(records))
    /\ (run.choice # "") ~> (pc = "exit" /\ run.reason = "completed")

\* a completed run in which every move failed
C13_Witness ==
    /\ pc = "exit"
    /\ run.reason = "completed"
    /\ Len(records) = 2
    /\ Len(MoveCalls) = 2
    /\ \A k \in 1..2 : MoveCalls[k].answer # "ok"
    /\ mv.success_count = 0

\* the reasons for which a run ends on a fatal condition: a missing
\* configuration, a failed authentication, an input file that is missing,
\* unreadable or without a valid record, and a validation of the parent or of
\* the children that blocks the run
FatalReasons ==
    { "configuration", "authentication", "file_not_found", "preview", "input",
      "parent_validation", "validation_failed", "unexpected" }

\* C14: every run that ends because of a fatal condition (missing
\* configuration, failed authentication, an input-format error, a
\* validation-phase failure that blocks the run) ends the process with a
\* non-zero exit status.
C14_FatalExitsNonZero ==
    (pc = "exit" /\ run.reason \in FatalReasons) => exit_code > 0

----------------------------------------------------------------------------
(* The move executor on its own, in either mode, called with or without a  *)
(* session                                                                 *)

InitMove ==
    /\ pc = "choose_method"
    /\ session_token \in { "tok", "none" }
    /\ \E n \in BulkSizes : records = RecordsOf([k \in 1..n |-> 1000 + k])
    /\ parent_type \in { "archival_objects", "resources" }
    /\ parent_id = 12
    /\ parent_store = NoParentRecord
    /\ parent_result = NoParent
    /\ resource_id = 0
    /\ server = NoServer
    /\ max_samples = 0
    /\ object_ids = << >>
    /\ validation_results = NoResults
    /\ child_log = << >>
    /\ child_validation = FALSE
    /\ table = NoFrame
    /\ norm = NoNorm
    /\ mv = NoMove
    /\ api_log = << >>
    /\ exit_code = -1
    /\ run = [NoRun EXCEPT !.proceed = TRUE, !.confirmed = TRUE]

NextMove ==
    \/ ChooseMethod
    \/ IndividualMoveItem
    \/ IndividualDone
    \/ BulkCall
    \/ BulkNextBatch
    \/ BulkMoveItem
    \/ BulkBatchEnd
    \/ BulkReturn
    \/ OperationCompletion

SpecMove == InitMove /\ [][NextMove]_vars

\* C15: without a session token move_object and move_multiple_objects fail on
\* the precondition before any request is sent; the failure differs from the
\* failure of a move request: move_multiple_objects raises, returning no
\* result and recording no outcome for any record, and move_object fails
\* with the error of the missing session, which no call under a session does.
C15_NoSessionIsAPrecondition ==
    /\ session_token = "none" =>
          /\ api_log = << >>
          /\ mv.mode = "bulk" =>
                /\ mv.raised
                /\ ~mv.returned
                /\ mv.results = << >>
                /\ mv.batches = << >>
                /\ mv.success_count = 0 /\ mv.error_count = 0
          /\ mv.mode = "individual" =>
                \A k \in 1..Len(mv.results) :
                    /\ mv.results[k].status = "Failed"
                    /\ mv.results[k].detail = "not_authenticated"
    /\ session_token = "tok" =>
          /\ ~mv.raised
          /\ Len(mv.results) = Len(MoveCalls)
          /\ \A k \in 1..Len(mv.results) : mv.results[k].detail # "not_authenticated"

\* a bulk move of several records called without a session
C15_Witness ==
    /\ session_token = "none"
    /\ mv.mode = "bulk"
    /\ pc = "bulk_done"
    /\ mv.raised
    /\ Len(records) >= 2

----------------------------------------------------------------------------
(* Claims about the resource id *)

\* the number a reference ends in, 0 when its last segment is no number
LastSegmentNumber(ref) ==
    IF \E n \in 0..99 : LastSegment(ref) = Str(n)
    THEN CHOOSE n \in 0..99 : LastSegment(ref) = Str(n)
    ELSE 0

\* the requests of the run that fetch a record
FetchCalls == SelectSeq(api_log, LAMBDA r : r.op = "get")

\* C18: for a parent of type "resources" the resource id is the parent id and
\* no fetch is made for it; for an "archival_objects" parent it is the number
\* in the last segment of the record's resource.ref; when the ref is absent
\* or malformed or the fetch fails it is None, and in every case the run goes
\* on to the child validation.
C18_ResourceIdDerivation ==
    /\ [](pc = "validate_children" =>
            /\ parent_type = "resources" =>
                  /\ resource_id = parent_id
                  /\ Len(FetchCalls) = 2
            /\ parent_type = "archival_objects" =>
                  /\ Len(FetchCalls) = 3
                  /\ resource_id =
                        IF FetchCalls[3].answer = "ok" /\ parent_store.has_resource
                        THEN LastSegmentNumber(parent_store.resource_ref)
                        ELSE 0)
    /\ [][pc = "extract_resource_id" => pc' = "validate_children"]_vars

\* the fetch for the resource id failed and the child validation has run
C18_Witness ==
    /\ pc = "child_done"
    /\ parent_type = "archival_objects"
    /\ FetchCalls[3].answer = "transport"
    /\ resource_id = 0
    /\ validation_results.total_checked >= 1

\* the requests of the run that fetch a record other than the parent
ChildFetches == SelectSeq(api_log, LAMBDA r : r.op = "get" /\ r.id # Str(parent_id))

\* C28: the sample only gates the run. The records main works on are the
\* normalizer's output as it was returned; once the operator has confirmed,
\* the move requests sent are, in order, those of the records from the first
\* on, each with the id and the position of its record, and when the move
\* phase is over there is one for every record, those behind the sample
\* included, of which no record was fetched.
C28_SampleOnlyGates ==
    /\ pc \notin { "start", "authenticate", "get_file", "preview", "ask_proceed",
                   "process_file", "exit" } => (norm.ok /\ records = norm.records)
    /\ run.confirmed =>
          /\ norm.ok /\ records = norm.records
          /\ Len(MoveCalls) <= Len(norm.records)
          /\ \A n \in 1..Len(MoveCalls) :
                /\ MoveCalls[n].child = norm.records[n].id
                /\ MoveCalls[n].position = norm.records[n].position
                /\ MoveCalls[n].type = parent_type
                /\ MoveCalls[n].id = Str(parent_id)
          /\ Len(ChildFetches) = Min(Len(norm.records), main_max_samples)
          /\ \A n \in 1..Len(ChildFetches) :
                ChildFetches[n].id = Str(norm.records[n].id)
          /\ (mv.returned \/ run.reason = "completed") =>
                Len(MoveCalls) = Len(norm.records)

\* eleven records, of which the eleventh was never fetched and has not the
\* target parent among its ancestors, and eleven move requests
C28_Witness ==
    /\ mv.returned
    /\ Len(norm.records) = main_max_samples + 1
    /\ validation_results.total_checked = main_max_samples
    /\ Len(MoveCalls) = main_max_samples + 1
    /\ MoveCalls[main_max_samples + 1].child = 102
    /\ MoveCalls[main_max_samples + 1].answer = "ok"
    /\ \A n \in 1..Len(child_log) : child_log[n].obj_id = 101
    /\ ~ancestor_loop(server[102].ancestors, parent_id, 1, << >>).parent_found

\* C25: whenever the child validation has detected a reparenting,
\* invalid_records is at least 1 and the validation is not eligible: the run
\* comes to no confirmation prompt, the operator confirms nothing and no
\* move request is sent.
C25_ReparentingNeverProceeds ==
    validation_results.reparenting_detected =>
        /\ validation_results.invalid_records >= 1
        /\ ~child_validation
        /\ pc \notin { "choose_method", "individual_loop", "individual_done",
                       "bulk_move", "bulk_loop", "bulk_batch", "bulk_done" }
        /\ ~run.confirmed
        /\ MoveCalls = << >>

\* a run that detected a reparenting and ended at the validation summary
C25_Witness ==
    /\ pc = "exit"
    /\ run.reason = "validation_failed"
    /\ validation_results.reparenting_detected
    /\ validation_results.valid_records >= 1
    /\ DOMAIN validation_results.current_parents # {}

\* C26: while the resource id is None every sampled child that is fetched is
\* counted invalid, valid_records stays 0, the child validation is not
\* eligible and the run sends no move request.
C26_NoResourceIdNoMove ==
    resource_id = 0 =>
        /\ \A n \in 1..Len(child_log) : ~child_log[n].valid
        /\ validation_results.valid_records = 0
        /\ validation_results.invalid_records = validation_results.total_checked
        /\ ~child_validation
        /\ ~run.confirmed
        /\ MoveCalls = << >>

\* the resource id could not be derived, a child was fetched whose ancestors
\* hold the parent, and the run ended at the validation summary
C26_Witness ==
    /\ pc = "exit"
    /\ run.reason = "validation_failed"
    /\ resource_id = 0
    /\ Len(child_log) >= 1
    /\ child_log[1].fetched
    /\ child_log[1].parent_found
    /\ MoveCalls = << >>

====
